---- MODULE Spec2Model ----
(***************************************************************************)
(* Model of onecall/phemex.py: the Phemex REST client.  Every public       *)
(* endpoint method is one action; request signing, urlencode, str() and    *)
(* hexdigest are operators computed the way the Python code computes them. *)
(*                                                                         *)
(* A Python str is a sequence of one-character strings over printable      *)
(* ASCII.  A Python value is a record [t |-> type name, v |-> payload].    *)
(* A dict is the sequence of its <<key, value>> items in insertion order.  *)
(***************************************************************************)
EXTENDS Integers, Sequences, FiniteSets, TLC

\* ------------------------------------------------------------ python values

None == [t |-> "NoneType", v |-> 0]
PyStr(s) == [t |-> "str", v |-> s]
PyInt(n) == [t |-> "int", v |-> n]
PyBool(b) == [t |-> "bool", v |-> b]
PyList(xs) == [t |-> "list", v |-> xs]
PyDict(items) == [t |-> "dict", v |-> items]
PyExc(name) == [t |-> "exception", v |-> name]

\* bool(x) for the value kinds that reach an `if` in the client
Truthy(x) ==
    CASE x.t = "NoneType" -> FALSE
      [] x.t = "bool" -> x.v
      [] x.t = "int" -> x.v # 0
      [] OTHER -> Len(x.v) > 0

\* index of key k in the items of a dict, 0 when absent
RECURSIVE KeyIndex(_, _, _)
KeyIndex(items, k, i) ==
    IF i > Len(items) THEN 0
    ELSE IF items[i][1] = k THEN i
    ELSE KeyIndex(items, k, i + 1)

DictHas(d, k) == KeyIndex(d.v, k, 1) # 0
\* d.get(k, default)
DictGet(d, k, default) ==
    LET i == KeyIndex(d.v, k, 1) IN IF i = 0 THEN default ELSE d.v[i][2]
\* d[k] = val on the item sequence: an existing key keeps its position
DictSet(items, k, val) ==
    LET i == KeyIndex(items, k, 1)
    IN IF i = 0 THEN Append(items, <<k, val>>)
       ELSE [items EXCEPT ![i] = <<k, val>>]
\* {**a, **b}
RECURSIVE DictUpdate(_, _)
DictUpdate(a, b) ==
    IF b = <<>> THEN a ELSE DictUpdate(DictSet(a, Head(b)[1], Head(b)[2]), Tail(b))

\* ------------------------------------------------------------ text

\* printable ASCII without the backquote: code points 32..95 and 97..126
AsciiLo ==
    << " ", "!", "\"", "#", "$", "%", "&", "'", "(", ")", "*", "+", ",", "-", ".", "/",
       "0", "1", "2", "3", "4", "5", "6", "7", "8", "9", ":", ";", "<", "=", ">", "?",
       "@", "A", "B", "C", "D", "E", "F", "G", "H", "I", "J", "K", "L", "M", "N", "O",
       "P", "Q", "R", "S", "T", "U", "V", "W", "X", "Y", "Z", "[", "\\", "]", "^", "_" >>
AsciiHi ==
    << "a", "b", "c", "d", "e", "f", "g", "h", "i", "j", "k", "l", "m", "n", "o",
       "p", "q", "r", "s", "t", "u", "v", "w", "x", "y", "z", "{", "|", "}", "~" >>
Char == {AsciiLo[i] : i \in 1..Len(AsciiLo)} \cup {AsciiHi[i] : i \in 1..Len(AsciiHi)}

\* ord(c)
ord ==
    [c \in Char |->
        IF \E i \in 1..Len(AsciiLo) : AsciiLo[i] = c
        THEN 31 + (CHOOSE i \in 1..Len(AsciiLo) : AsciiLo[i] = c)
        ELSE 96 + (CHOOSE i \in 1..Len(AsciiHi) : AsciiHi[i] = c)]

\* s.encode("utf-8"): one byte per ASCII character
encode(s) == [i \in 1..Len(s) |-> ord[s[i]]]

Digits == <<"0", "1", "2", "3", "4", "5", "6", "7", "8", "9">>
HexLower == Digits \o <<"a", "b", "c", "d", "e", "f">>
HexUpper == Digits \o <<"A", "B", "C", "D", "E", "F">>

\* str(n) for an int
RECURSIVE NatStr(_)
NatStr(n) == IF n < 10 THEN <<Digits[n + 1]>> ELSE NatStr(n \div 10) \o <<Digits[(n % 10) + 1]>>
IntStr(n) == IF n < 0 THEN <<"-">> \o NatStr(0 - n) ELSE NatStr(n)

\* repr(s) for a str: delimited by double quotes when s holds a single quote
\* and no double quote, else by single quotes; the delimiter and the
\* backslash are escaped inside
RECURSIVE ReprBody(_, _)
ReprBody(s, q) ==
    IF s = <<>> THEN <<>>
    ELSE (IF Head(s) = "\\" \/ Head(s) = q THEN <<"\\", Head(s)>> ELSE <<Head(s)>>)
         \o ReprBody(Tail(s), q)
StrRepr(s) ==
    LET hasS == \E i \in 1..Len(s) : s[i] = "'"
        hasD == \E i \in 1..Len(s) : s[i] = "\""
        q == IF hasS /\ ~hasD THEN "\"" ELSE "'"
    IN <<q>> \o ReprBody(s, q) \o <<q>>

\* str(x) and repr(x) of a python value
RECURSIVE Repr(_), ReprItems(_, _)
Repr(x) ==
    CASE x.t = "NoneType" -> <<"N","o","n","e">>
      [] x.t = "bool" -> IF x.v THEN <<"T","r","u","e">> ELSE <<"F","a","l","s","e">>
      [] x.t = "int" -> IntStr(x.v)
      [] x.t = "str" -> StrRepr(x.v)
      [] x.t = "dict" -> <<"{">> \o ReprItems(x.v, 1) \o <<"}">>
ReprItems(items, i) ==
    IF i > Len(items) THEN <<>>
    ELSE StrRepr(items[i][1]) \o <<":"," ">> \o Repr(items[i][2])
         \o (IF i < Len(items) THEN <<","," ">> ELSE <<>>) \o ReprItems(items, i + 1)
str(x) == IF x.t = "str" THEN x.v ELSE Repr(x)

\* urllib.parse.quote_plus: unreserved characters stay, a space becomes "+",
\* every other byte becomes %XX in upper-case hex
Unreserved ==
    {AsciiLo[i] : i \in 17..26} \cup {AsciiLo[i] : i \in 34..59}
        \cup {AsciiHi[i] : i \in 1..26} \cup {"_", ".", "-", "~"}
quote_char(c) ==
    IF c \in Unreserved THEN <<c>>
    ELSE IF c = " " THEN <<"+">>
    ELSE <<"%", HexUpper[(ord[c] \div 16) + 1], HexUpper[(ord[c] % 16) + 1]>>
RECURSIVE quote_plus(_)
quote_plus(s) == IF s = <<>> THEN <<>> ELSE quote_char(Head(s)) \o quote_plus(Tail(s))

\* urllib.parse.urlencode(query) for a mapping: k=v pairs joined by "&",
\* keys and values passed through str() and quote_plus
RECURSIVE urlencode_items(_, _)
urlencode_items(items, i) ==
    IF i > Len(items) THEN <<>>
    ELSE quote_plus(str(PyStr(items[i][1]))) \o <<"=">> \o quote_plus(str(items[i][2]))
         \o (IF i < Len(items) THEN <<"&">> ELSE <<>>) \o urlencode_items(items, i + 1)
\* defined only for a mapping; urlencode(None) raises TypeError
urlencode_ok(query) == query.t = "dict"
urlencode(query) == urlencode_items(query.v, 1)

\* hmac.new(key, msg, hashlib.sha256).digest(), with SHA-256 taken as an
\* ideal hash: distinct (key, msg) pairs give distinct digests.  The digest
\* is the injective byte string key 0x00 msg (no key holds a zero byte).
hmac_sha256(keyBytes, msgBytes) == keyBytes \o <<0>> \o msgBytes
\* bytes.hex(): two lower-case hex digits per byte
hexdigest(bytes) ==
    [i \in 1..(2 * Len(bytes)) |->
        IF i % 2 = 1 THEN HexLower[(bytes[(i + 1) \div 2] \div 16) + 1]
        ELSE HexLower[(bytes[i \div 2] % 16) + 1]]

\* ------------------------------------------------------------ client state

VARIABLES
    key,             \* self.key, the api key given at construction
    secret,          \* the api secret given at construction
    _path_config,    \* self._path_config, the endpoint descriptor table
    pandas_append,   \* whether the installed pandas has DataFrame.append
    now,             \* the clock read by utils.get_current_timestamp()
    op,              \* name of the method called last
    is_dataframe,    \* the is_dataframe argument of that call
    signed,          \* the _signed_request invocations of that call, with the clock reading
    creds,           \* the _get_request_credentials invocations of that call
    requests,        \* the requests that call handed to the transport
    received,        \* the responses the transport gave back in that call
    conversion,      \* outcome of the tabular conversion in that call
    log,             \* the errors that call logged
    outcome,         \* what that call returned or raised
    mark             \* an earlier _get_request_credentials invocation, kept for comparison

vars == <<key, secret, _path_config, pandas_append, now, op, is_dataframe, signed, creds,
          requests, received, conversion, log, outcome, mark>>

\* a call returns a value or raises an exception
Ret(v) == [raised |-> FALSE, value |-> v]
Raise(name) == [raised |-> TRUE, value |-> PyExc(name)]

\* Phemex.__init__: the descriptor table
PathConfig ==
    [get_positions |-> [method |-> <<"G","E","T">>, path |-> <<"/","a","c","c","o","u","n","t","s","/","a","c","c","o","u","n","t","P","o","s","i","t","i","o","n","s">>, rate_limit |-> 50],
     cancel_orders |-> [method |-> <<"D","E","L","E","T","E">>, path |-> <<"/","o","r","d","e","r","s","/","a","l","l">>, rate_limit |-> 50],
     get_data |-> [method |-> <<"G","E","T">>, path |-> <<"/","e","x","c","h","a","n","g","e","/","p","u","b","l","i","c","/","m","d","/","v","2","/","k","l","i","n","e">>, rate_limit |-> 50],
     get_orderbook |-> [method |-> <<"G","E","T">>, path |-> <<"/","m","d","/","o","r","d","e","r","b","o","o","k">>, rate_limit |-> 50],
     get_balance |-> [method |-> <<"G","E","T">>, path |-> <<"a","c","c","o","u","n","t","s","/","a","c","c","o","u","n","t","P","o","s","i","t","i","o","n","s">>, rate_limit |-> 50],
     market_order |-> [method |-> <<"P","O","S","T">>, path |-> <<"/","o","r","d","e","r","s">>, rate_limit |-> 50],
     limit_order |-> [method |-> <<"P","O","S","T">>, path |-> <<"/","o","r","d","e","r","s">>, rate_limit |-> 50],
     get_closed_orders |-> [method |-> <<"G","E","T">>, path |-> <<"/","e","x","c","h","a","n","g","e","/","o","r","d","e","r","/","l","i","s","t">>, rate_limit |-> 50],
     get_open_orders |-> [method |-> <<"G","E","T">>, path |-> <<"/","o","r","d","e","r","s","/","a","c","t","i","v","e","L","i","s","t">>, rate_limit |-> 50]]

\* ------------------------------------------------------------ signing

\* Phemex._get_sign
_get_sign(data) == hexdigest(hmac_sha256(encode(secret), encode(data)))

\* the header set of _get_request_credentials around a given signature
Header(signature, expiry) ==
    PyDict(<< <<<<"x","-","p","h","e","m","e","x","-","a","c","c","e","s","s","-","t","o","k","e","n">>, PyStr(key)>>,
              <<<<"x","-","p","h","e","m","e","x","-","r","e","q","u","e","s","t","-","s","i","g","n","a","t","u","r","e">>, PyStr(signature)>>,
              <<<<"x","-","p","h","e","m","e","x","-","r","e","q","u","e","s","t","-","e","x","p","i","r","y">>, PyInt(expiry)>> >>)

\* variant: the query-parameter branch puts the expiry before the query string
_get_request_credentials_expiry_first(path, expiry, params, payload) ==
    Header(IF Truthy(params)
           THEN _get_sign(path \o str(PyInt(expiry)) \o urlencode(params))
           ELSE IF Truthy(payload)
           THEN _get_sign(path \o str(PyInt(expiry)) \o str(payload))
           ELSE <<>>, expiry)

\* variant: the payload branch puts the expiry after the payload
_get_request_credentials_expiry_last(path, expiry, params, payload) ==
    Header(IF Truthy(params)
           THEN _get_sign(path \o urlencode(params) \o str(PyInt(expiry)))
           ELSE IF Truthy(payload)
           THEN _get_sign(path \o str(payload) \o str(PyInt(expiry)))
           ELSE <<>>, expiry)

\* variant: the payload is tested before the query parameters
_get_request_credentials_payload_wins(path, expiry, params, payload) ==
    Header(IF Truthy(payload)
           THEN _get_sign(path \o str(PyInt(expiry)) \o str(payload))
           ELSE IF Truthy(params)
           THEN _get_sign(path \o urlencode(params) \o str(PyInt(expiry)))
           ELSE <<>>, expiry)

\* variant: with neither params nor payload the path and the expiry are signed
_get_request_credentials_always_signs(path, expiry, params, payload) ==
    Header(IF Truthy(params)
           THEN _get_sign(path \o urlencode(params) \o str(PyInt(expiry)))
           ELSE IF Truthy(payload)
           THEN _get_sign(path \o str(PyInt(expiry)) \o str(payload))
           ELSE _get_sign(path \o str(PyInt(expiry))), expiry)

\* variant: the signature computed last for a path is reused for that path
_get_request_credentials_cached(path, expiry, params, payload) ==
    Header(IF creds # <<>> /\ creds[1].path = path
           THEN DictGet(creds[1].header, <<"x","-","p","h","e","m","e","x","-","r","e","q","u","e","s","t","-","s","i","g","n","a","t","u","r","e">>, None).v
           ELSE IF Truthy(params)
           THEN _get_sign(path \o urlencode(params) \o str(PyInt(expiry)))
           ELSE IF Truthy(payload)
           THEN _get_sign(path \o str(PyInt(expiry)) \o str(payload))
           ELSE <<>>, expiry)

\* Phemex._get_request_credentials(path, expiry, params=..., payload=...)
_get_request_credentials(path, expiry, params, payload) ==
    LET signature ==
            IF Truthy(params)
            THEN _get_sign(path \o urlencode(params) \o str(PyInt(expiry)))
            ELSE IF Truthy(payload)
            THEN _get_sign(path \o str(PyInt(expiry)) \o str(payload))
            ELSE <<>>
    IN Header(signature, expiry)

\* the record kept of one _get_request_credentials invocation
CredCall(path, expiry, params, payload) ==
    [path |-> path, expiry |-> expiry, params |-> params, payload |-> payload,
     header |-> _get_request_credentials(path, expiry, params, payload)]

\* Exchange.send_request: the external transport takes the request and hands
\* back the parsed response
send_request(method, path, header, query, body) ==
    [method |-> method, path |-> path, headers |-> header, query |-> query, body |-> body]

\* utils.get_current_timestamp(): the clock, in seconds
get_current_timestamp == now

\* variant: the expiry is the clock reading itself
_signed_request_no_margin(method, path, params, data, resp) ==
    LET expiry == get_current_timestamp
        cred == CredCall(path, expiry, params, data)
        call == [method |-> method, path |-> path, params |-> params, data |-> data,
                 timestamp |-> get_current_timestamp]
    IN IF urlencode_ok(params)
       THEN [signed |-> <<call>>, creds |-> <<cred>>,
             requests |-> <<send_request(method, path, cred.header, urlencode(params), data)>>,
             received |-> <<resp>>, result |-> Ret(resp)]
       ELSE [signed |-> <<call>>, creds |-> <<cred>>, requests |-> <<>>,
             received |-> <<>>, result |-> Raise("TypeError")]

\* Phemex._signed_request, with resp the response the transport will give.
\* urlencode(params) is evaluated as an argument of send_request, so a params
\* of None raises TypeError before the transport is reached.
_signed_request(method, path, params, data, resp) ==
    LET expiry == get_current_timestamp + 1
        cred == CredCall(path, expiry, params, data)
        call == [method |-> method, path |-> path, params |-> params, data |-> data,
                 timestamp |-> get_current_timestamp]
    IN IF urlencode_ok(params)
       THEN [signed |-> <<call>>, creds |-> <<cred>>,
             requests |-> <<send_request(method, path, cred.header, urlencode(params), data)>>,
             received |-> <<resp>>, result |-> Ret(resp)]
       ELSE [signed |-> <<call>>, creds |-> <<cred>>, requests |-> <<>>,
             received |-> <<>>, result |-> Raise("TypeError")]

\* ------------------------------------------------------------ response shaping

\* x[k] on a python value
Subscript(x, k) ==
    IF x.t # "dict" THEN Raise("TypeError")
    ELSE IF DictHas(x, k) THEN Ret(DictGet(x, k, None))
    ELSE Raise("KeyError")

\* x.get(k, default) on a python value
Get(x, k, default) ==
    IF x.t # "dict" THEN Raise("AttributeError") ELSE Ret(DictGet(x, k, default))

\* pd.DataFrame(data, columns=columns) for data a list of rows or None
pd_DataFrame(data, columns) ==
    IF data.t = "NoneType" THEN Ret([t |-> "DataFrame", v |-> [columns |-> columns, rows |-> <<>>]])
    ELSE IF /\ data.t = "list"
            /\ \A i \in 1..Len(data.v) :
                   data.v[i].t = "list" /\ Len(data.v[i].v) = Len(columns)
    THEN Ret([t |-> "DataFrame", v |-> [columns |-> columns, rows |-> data.v]])
    ELSE Raise("ValueError")

\* df.append(other, ignore_index=True); pandas 2 removed DataFrame.append
df_append(df, other) ==
    IF pandas_append
    THEN Ret([t |-> "DataFrame",
              v |-> [columns |-> df.v.columns, rows |-> df.v.rows \o other.v.rows]])
    ELSE Raise("AttributeError")

KlineColumns ==
    << <<"t","i","m","e","s","t","a","m","p">>, <<"i","n","t","e","r","v","a","l">>, <<"l","a","s","t","_","c","l","o","s","e">>, <<"o","p","e","n">>, <<"h","i","g","h">>,
       <<"l","o","w">>, <<"c","l","o","s","e">>, <<"v","o","l","u","m","e">>, <<"t","u","r","n","o","v","e","r">> >>
BookColumns == << <<"p","r","i","c","e">>, <<"Q","T","Y">> >>

\* self._logger.error(e) in get_data: the logger of the Exchange base class
_logger_error(e) == <<e>>
\* logging.error(e) in get_orderbook
logging_error(e) == <<e>>

\* the try block of get_data
kline_frame(response) ==
    LET rows == Subscript(response, <<"r","o","w","s">>)
    IN IF rows.raised THEN rows ELSE pd_DataFrame(rows.value, KlineColumns)

\* the try block of get_orderbook
book_frame(response) ==
    LET result == Subscript(response, <<"r","e","s","u","l","t">>)
        book == IF result.raised THEN result ELSE Subscript(result.value, <<"b","o","o","k">>)
        bids == IF book.raised THEN book ELSE Subscript(book.value, <<"b","i","d","s">>)
        df == IF bids.raised THEN bids ELSE pd_DataFrame(bids.value, BookColumns)
        asks == IF df.raised THEN df ELSE Subscript(book.value, <<"a","s","k","s">>)
        other == IF asks.raised THEN asks ELSE pd_DataFrame(asks.value, BookColumns)
    IN IF other.raised THEN other ELSE df_append(df.value, other.value)

\* ------------------------------------------------------------ endpoint methods

\* what every call leaves behind: the client itself is not touched
Finish(name, dataframe, r, conv, logged, result) ==
    /\ op' = name
    /\ is_dataframe' = dataframe
    /\ signed' = r.signed
    /\ creds' = r.creds
    /\ requests' = r.requests
    /\ received' = r.received
    /\ conversion' = conv
    /\ log' = logged
    /\ outcome' = result
    /\ UNCHANGED <<key, secret, _path_config, pandas_append, now, mark>>

\* response.get("data", {}).get(field)
data_field(r, field) ==
    IF r.result.raised THEN r.result
    ELSE LET data == Get(r.result.value, <<"d","a","t","a">>, PyDict(<<>>))
         IN IF data.raised THEN data ELSE Get(data.value, field, None)

get_positions(currency, resp) ==
    LET params == PyDict(<< <<<<"c","u","r","r","e","n","c","y">>, currency>> >>)
        r == _signed_request(_path_config.get_positions.method,
                             _path_config.get_positions.path, params, None, resp)
    IN Finish("get_positions", FALSE, r, "none", <<>>, data_field(r, <<"p","o","s","i","t","i","o","n","s">>))

cancel_orders(symbol, resp) ==
    LET params == PyDict(<< <<<<"s","y","m","b","o","l">>, symbol>>, <<<<"u","n","t","r","i","g","g","e","r","e","d">>, PyBool(TRUE)>> >>)
        r == _signed_request(_path_config.cancel_orders.method,
                             _path_config.cancel_orders.path, params, None, resp)
    IN Finish("cancel_orders", FALSE, r, "none", <<>>, r.result)

\* variant: no try block around the conversion
get_data_unguarded(symbol, dataframe, resp) ==
    LET params == PyDict(<< <<<<"s","y","m","b","o","l">>, symbol>> >>)
        r == _signed_request(_path_config.get_data.method,
                             _path_config.get_data.path, params, None, resp)
        tried == dataframe /\ ~r.result.raised
        frame == kline_frame(resp)
    IN IF tried /\ ~frame.raised
       THEN Finish("get_data", dataframe, r, "ok", <<>>, frame)
       ELSE IF tried
       THEN Finish("get_data", dataframe, r, "failed", <<>>, frame)
       ELSE Finish("get_data", dataframe, r, "none", <<>>, r.result)

get_data(symbol, dataframe, resp) ==
    LET params == PyDict(<< <<<<"s","y","m","b","o","l">>, symbol>> >>)
        r == _signed_request(_path_config.get_data.method,
                             _path_config.get_data.path, params, None, resp)
        tried == dataframe /\ ~r.result.raised
        frame == kline_frame(resp)
    IN IF tried /\ ~frame.raised
       THEN Finish("get_data", dataframe, r, "ok", <<>>, frame)
       ELSE IF tried
       THEN Finish("get_data", dataframe, r, "failed", _logger_error(frame.value), r.result)
       ELSE Finish("get_data", dataframe, r, "none", <<>>, r.result)

get_orderbook(symbol, dataframe, resp) ==
    LET params == PyDict(<< <<<<"s","y","m","b","o","l">>, symbol>> >>)
        r == _signed_request(_path_config.get_orderbook.method,
                             _path_config.get_orderbook.path, params, None, resp)
        tried == dataframe /\ ~r.result.raised
        orderbook == book_frame(resp)
    IN IF tried /\ ~orderbook.raised
       THEN Finish("get_orderbook", dataframe, r, "ok", <<>>, orderbook)
       ELSE IF tried
       THEN Finish("get_orderbook", dataframe, r, "failed", logging_error(orderbook.value), r.result)
       ELSE Finish("get_orderbook", dataframe, r, "none", <<>>, r.result)

\* variant: the descriptor of get_positions is used
get_balance_positions_path(currency, resp) ==
    LET params == PyDict(<< <<<<"c","u","r","r","e","n","c","y">>, currency>> >>)
        r == _signed_request(_path_config.get_positions.method,
                             _path_config.get_positions.path, params, None, resp)
    IN Finish("get_balance", FALSE, r, "none", <<>>, data_field(r, <<"a","c","c","o","u","n","t">>))

get_balance(currency, resp) ==
    LET params == PyDict(<< <<<<"c","u","r","r","e","n","c","y">>, currency>> >>)
        r == _signed_request(_path_config.get_balance.method,
                             _path_config.get_balance.path, params, None, resp)
    IN Finish("get_balance", FALSE, r, "none", <<>>, data_field(r, <<"a","c","c","o","u","n","t">>))

market_order(client_order_id, symbol, side, order_qty, kwargs, resp) ==
    LET payload == PyDict(DictUpdate(<< <<<<"c","l","O","r","d","I","D">>, client_order_id>>,
                                        <<<<"s","y","m","b","o","l">>, symbol>>,
                                        <<<<"s","i","d","e">>, side>>,
                                        <<<<"o","r","d","T","y","p","e">>, PyStr(<<"M","a","r","k","e","t">>)>>,
                                        <<<<"o","r","d","e","r","Q","t","y">>, order_qty>> >>, kwargs))
        r == _signed_request(_path_config.market_order.method,
                             _path_config.market_order.path, None, payload, resp)
    IN Finish("market_order", FALSE, r, "none", <<>>, r.result)

limit_order(client_order_id, symbol, side, order_qty, price, kwargs, resp) ==
    LET payload == PyDict(DictUpdate(<< <<<<"c","l","O","r","d","I","D">>, client_order_id>>,
                                        <<<<"s","y","m","b","o","l">>, symbol>>,
                                        <<<<"s","i","d","e">>, side>>,
                                        <<<<"o","r","d","T","y","p","e">>, PyStr(<<"L","i","m","i","t">>)>>,
                                        <<<<"o","r","d","e","r","Q","t","y">>, order_qty>>,
                                        <<<<"p","r","i","c","e","E","p">>, price>> >>, kwargs))
        r == _signed_request(_path_config.limit_order.method,
                             _path_config.limit_order.path, None, payload, resp)
    IN Finish("limit_order", FALSE, r, "none", <<>>, r.result)

get_closed_orders(symbol, resp) ==
    LET params == PyDict(<< <<<<"s","y","m","b","o","l">>, symbol>>, <<<<"o","r","d","S","t","a","t","u","s">>, PyStr(<<"F","i","l","l","e","d">>)>> >>)
        r == _signed_request(_path_config.get_closed_orders.method,
                             _path_config.get_closed_orders.path, params, None, resp)
    IN Finish("get_closed_orders", FALSE, r, "none", <<>>, r.result)

get_open_orders(symbol, resp) ==
    LET params == PyDict(<< <<<<"s","y","m","b","o","l">>, symbol>> >>)
        r == _signed_request(_path_config.get_open_orders.method,
                             _path_config.get_open_orders.path, params, None, resp)
    IN Finish("get_open_orders", FALSE, r, "none", <<>>, r.result)

\* a caller invoking _get_request_credentials itself; keep says whether this
\* invocation is the one remembered in mark
credentials(path, expiry, params, payload, keep) ==
    LET cred == CredCall(path, expiry, params, payload)
    IN /\ op' = "_get_request_credentials"
       /\ is_dataframe' = FALSE
       /\ signed' = <<>>
       /\ creds' = <<cred>>
       /\ requests' = <<>>
       /\ received' = <<>>
       /\ conversion' = "none"
       /\ log' = <<>>
       /\ outcome' = Ret(cred.header)
       /\ mark' = IF keep THEN <<cred>> ELSE mark
       /\ UNCHANGED <<key, secret, _path_config, pandas_append, now>>

\* ------------------------------------------------------------ environment

StartTime == 8
MaxTime == 9

\* the clock advances
Tick ==
    /\ now < MaxTime
    /\ now' = now + 1
    /\ UNCHANGED <<key, secret, _path_config, pandas_append, op, is_dataframe, signed, creds,
                   requests, received, conversion, log, outcome, mark>>

Credentials == { <<<<"k","e","y","-","1">>, <<"s","3","c","r","e","t">>>>, <<<<"k","e","y","-","2">>, <<"S","e","c","r","e","t","2">>>> }

BTCUSD == PyStr(<<"B","T","C","U","S","D">>)
Symbols == {BTCUSD, PyStr(<<"u"," ","/","&","'">>)}
Currencies == {PyStr(<<"U","S","D">>), PyStr(<<"B","T","C">>)}
Sides == {PyStr(<<"B","U","Y">>)}
OrderIds == {PyStr(<<"i","d","-","1">>)}
Quantities == {PyInt(25)}
Prices == {PyInt(98970000)}
Kwargs == { <<>>,
            << <<<<"o","r","d","T","y","p","e">>, PyStr(<<"S","t","o","p">>)>>, <<<<"t","i","m","e","I","n","F","o","r","c","e">>, PyStr(<<"G","o","o","d","T","i","l","l","C","a","n","c","e","l">>)>> >> }

KlineRow == PyList(<<PyInt(1590019200), PyInt(300), PyInt(9500), PyInt(9501), PyInt(9510),
                     PyInt(9490), PyInt(9505), PyInt(12), PyInt(114060)>>)
BookRow == PyList(<<PyInt(98970000), PyInt(3)>>)
\* the envelope documented for get_data
KlineEnvelope ==
    PyDict(<< <<<<"c","o","d","e">>, PyInt(0)>>, <<<<"m","s","g">>, PyStr(<<"O","K">>)>>,
              <<<<"d","a","t","a">>, PyDict(<< <<<<"t","o","t","a","l">>, PyInt(-1)>>,
                                      <<<<"r","o","w","s">>, PyList(<<KlineRow, KlineRow>>)>> >>)>> >>)
\* rows at the top level
KlineFlat == PyDict(<< <<<<"r","o","w","s">>, PyList(<<KlineRow>>)>> >>)
\* rows at the top level, of the wrong width
KlineShort == PyDict(<< <<<<"r","o","w","s">>, PyList(<<BookRow>>)>> >>)
\* the envelope documented for get_orderbook
BookEnvelope ==
    PyDict(<< <<<<"e","r","r","o","r">>, None>>, <<<<"i","d">>, PyInt(0)>>,
              <<<<"r","e","s","u","l","t">>,
                PyDict(<< <<<<"b","o","o","k">>, PyDict(<< <<<<"a","s","k","s">>, PyList(<<BookRow>>)>>,
                                                  <<<<"b","i","d","s">>, PyList(<<BookRow, BookRow>>)>> >>)>>,
                          <<<<"d","e","p","t","h">>, PyInt(30)>> >>)>> >>)
\* the envelope documented for get_positions and get_balance
AccountEnvelope ==
    PyDict(<< <<<<"c","o","d","e">>, PyInt(0)>>, <<<<"m","s","g">>, PyStr(<<>>)>>,
              <<<<"d","a","t","a">>,
                PyDict(<< <<<<"a","c","c","o","u","n","t">>, PyDict(<< <<<<"a","c","c","o","u","n","t","I","d">>, PyInt(0)>> >>)>>,
                          <<<<"p","o","s","i","t","i","o","n","s">>, PyList(<<PyDict(<< <<<<"s","i","z","e">>, PyInt(0)>> >>)>>)>> >>)>> >>)
\* an error reported by the exchange
ErrorEnvelope == PyDict(<< <<<<"c","o","d","e">>, PyInt(10500)>>, <<<<"m","s","g">>, PyStr(<<"e","r","r","o","r">>)>> >>)

\* the envelope documented for the order methods
OrderEnvelope ==
    PyDict(<< <<<<"c","o","d","e">>, PyInt(0)>>, <<<<"m","s","g">>, PyStr(<<>>)>>,
              <<<<"d","a","t","a">>, PyDict(<< <<<<"o","r","d","e","r","I","D">>, PyStr(<<"a","b","9","0">>)>> >>)>> >>)

\* what the transport may answer, per endpoint
AccountResponses == {AccountEnvelope, ErrorEnvelope, None}
KlineResponses == {KlineEnvelope, KlineFlat, KlineShort, ErrorEnvelope, None}
BookResponses == {BookEnvelope, KlineShort, ErrorEnvelope, None}
OrderResponses == {OrderEnvelope, ErrorEnvelope}

\* arguments of the direct calls of _get_request_credentials
SignPaths == {PathConfig.market_order.path, PathConfig.get_positions.path}
SignExpiries == (StartTime + 1)..(MaxTime + 1)
UsdParams == PyDict(<< <<<<"c","u","r","r","e","n","c","y">>, PyStr(<<"U","S","D">>)>> >>)
SignParams ==
    {None, PyDict(<<>>), UsdParams,
     PyDict(<< <<<<"s","y","m","b","o","l">>, PyStr(<<"u"," ","/","&","'">>)>>, <<<<"u","n","t","r","i","g","g","e","r","e","d">>, PyBool(TRUE)>> >>)}
SmallPayload == PyDict(<< <<<<"c","l","O","r","d","I","D">>, PyStr(<<"i","d","-","1">>)>>, <<<<"o","r","d","e","r","Q","t","y">>, PyInt(1)>> >>)
SignPayloads ==
    {None, PyDict(<<>>), SmallPayload,
     PyDict(<< <<<<"s","y","m","b","o","l">>, PyStr(<<"u"," ","/","&","'">>)>>, <<<<"r","e","d","u","c","e","O","n","l","y">>, PyBool(TRUE)>> >>)}

Idle(k, s, p) ==
    /\ key = k
    /\ secret = s
    /\ _path_config = PathConfig
    /\ pandas_append = p
    /\ now = StartTime
    /\ op = "none"
    /\ is_dataframe = FALSE
    /\ signed = <<>>
    /\ creds = <<>>
    /\ requests = <<>>
    /\ received = <<>>
    /\ conversion = "none"
    /\ log = <<>>
    /\ outcome = Ret(None)
    /\ mark = <<>>

\* the client after construction
Init == \E c \in Credentials, p \in BOOLEAN : Idle(c[1], c[2], p)

Next ==
    \/ Tick
    \/ \E c \in Currencies, r \in AccountResponses : get_positions(c, r)
    \/ \E s \in Symbols, r \in OrderResponses : cancel_orders(s, r)
    \/ \E s \in Symbols, d \in BOOLEAN, r \in KlineResponses : get_data(s, d, r)
    \/ \E s \in Symbols, d \in BOOLEAN, r \in BookResponses : get_orderbook(s, d, r)
    \/ \E c \in Currencies, r \in AccountResponses : get_balance(c, r)
    \/ \E i \in OrderIds, s \in Symbols, d \in Sides, q \in Quantities, k \in Kwargs,
          r \in OrderResponses : market_order(i, s, d, q, k, r)
    \/ \E i \in OrderIds, s \in Symbols, d \in Sides, q \in Quantities, p \in Prices,
          k \in Kwargs, r \in OrderResponses : limit_order(i, s, d, q, p, k, r)
    \/ \E s \in Symbols, r \in OrderResponses : get_closed_orders(s, r)
    \/ \E s \in Symbols, r \in OrderResponses : get_open_orders(s, r)

\* the endpoint methods called on one client, in any order
Spec == Init /\ [][Next]_vars

NextSign ==
    \E p \in SignPaths, e \in SignExpiries, q \in SignParams, d \in SignPayloads :
        credentials(p, e, q, d, FALSE)

\* _get_request_credentials called on one client with any arguments
SpecSign == Init /\ [][NextSign]_vars

NextDet ==
    \/ \E p \in SignPaths, e \in {StartTime + 1, StartTime + 2}, q \in {None, UsdParams},
          d \in {None, SmallPayload}, keep \in BOOLEAN : credentials(p, e, q, d, keep)
    \/ \E r \in {ErrorEnvelope} : get_positions(PyStr(<<"U","S","D">>), r)
    \/ \E r \in {KlineFlat} : get_data(BTCUSD, TRUE, r)
    \/ \E i \in OrderIds, r \in {OrderEnvelope} :
          market_order(i, BTCUSD, PyStr(<<"B","U","Y">>), PyInt(1), <<>>, r)

\* _get_request_credentials called among other calls, one invocation remembered
SpecDet == Init /\ [][NextDet]_vars

\* ------------------------------------------------------------ properties

\* the conversions agree with recorded outputs of the python library
TestVectors ==
    /\ urlencode(PyDict(<< <<<<"s","y","m","b","o","l">>, PyStr(<<"x"," ","/","&">>)>>, <<<<"u","n","t","r","i","g","g","e","r","e","d">>, PyBool(TRUE)>> >>)) = <<"s","y","m","b","o","l","=","x","+","%","2","F","%","2","6","&","u","n","t","r","i","g","g","e","r","e","d","=","T","r","u","e">>
      /\ urlencode(PyDict(<<>>)) = <<>>
      /\ str(PyDict(<< <<<<"a">>, PyStr(<<"x","'","y">>)>>, <<<<"b">>, PyInt(10)>>, <<<<"c">>, PyBool(TRUE)>>, <<<<"d">>, PyStr(<<"p","\"","q","'","r","\\">>)>> >>)) = <<"{","'","a","'",":"," ","\"","x","'","y","\"",","," ","'","b","'",":"," ","1","0",","," ","'","c","'",":"," ","T","r","u","e",","," ","'","d","'",":"," ","'","p","\"","q","\\","'","r","\\","\\","'","}">>
      /\ hexdigest(encode(<<"a","/","~">>)) = <<"6","1","2","f","7","e">>
      /\ hexdigest(<<0, 255>>) = <<"0","0","f","f">>
      /\ IntStr(1700000001) = <<"1","7","0","0","0","0","0","0","0","1">>

HeaderField(c, name) == DictGet(c.header, name, None)
Signature(c) == HeaderField(c, <<"x","-","p","h","e","m","e","x","-","r","e","q","u","e","s","t","-","s","i","g","n","a","t","u","r","e">>)
HeaderKeys(h) == {h.v[i][1] : i \in 1..Len(h.v)}
ThreeKeys ==
    {<<"x","-","p","h","e","m","e","x","-","a","c","c","e","s","s","-","t","o","k","e","n">>, <<"x","-","p","h","e","m","e","x","-","r","e","q","u","e","s","t","-","s","i","g","n","a","t","u","r","e">>, <<"x","-","p","h","e","m","e","x","-","r","e","q","u","e","s","t","-","e","x","p","i","r","y">>}
\* lower-case hex HMAC-SHA256 of msg under the secret of the client
HmacHex(msg) == hexdigest(hmac_sha256(encode(secret), encode(msg)))
IsLowerHex(s) ==
    \A i \in 1..Len(s) : s[i] \in {"0", "1", "2", "3", "4", "5", "6", "7", "8", "9",
                                   "a", "b", "c", "d", "e", "f"}
NonEmptyDict(x) == x.t = "dict" /\ Len(x.v) > 0
Absent(x) == x = None \/ x = PyDict(<<>>)
WithQuery(c) == c.path \o urlencode(c.params) \o IntStr(c.expiry)
WithPayload(c) == c.path \o IntStr(c.expiry) \o str(c.payload)

\* C1: with non-empty query parameters the signature header is the lower-case
\* hex HMAC-SHA256, under the secret, of path, urlencode(params), str(expiry)
\* in that order.
C1_QuerySignature ==
    \A i \in 1..Len(creds) :
        NonEmptyDict(creds[i].params) =>
            /\ Signature(creds[i]) = PyStr(HmacHex(WithQuery(creds[i])))
            /\ IsLowerHex(Signature(creds[i]).v)

EscapedParams ==
    PyDict(<< <<<<"s","y","m","b","o","l">>, PyStr(<<"u"," ","/","&","'">>)>>, <<<<"u","n","t","r","i","g","g","e","r","e","d">>, PyBool(TRUE)>> >>)
C1_Witness ==
    /\ op = "_get_request_credentials"
    /\ secret = <<"s","3","c","r","e","t">>
    /\ creds # <<>>
    /\ creds[1].path = <<"/","o","r","d","e","r","s">>
    /\ creds[1].expiry = 10
    /\ creds[1].params = EscapedParams
    /\ creds[1].payload = None
    /\ Signature(creds[1]) =
           PyStr(hexdigest(encode(<<"s","3","c","r","e","t">>) \o <<0>>
                     \o encode(<<"/","o","r","d","e","r","s","s","y","m","b","o","l","=","u","+","%","2","F","%","2","6","%","2","7","&","u","n","t","r","i","g","g","e","r","e","d","=","T","r","u","e","1","0">>)))

\* C2: with no query parameters and a non-empty payload the signature header
\* is the hex HMAC-SHA256, under the secret, of path, str(expiry), str(payload)
\* in that order.
C2_PayloadSignature ==
    \A i \in 1..Len(creds) :
        (Absent(creds[i].params) /\ NonEmptyDict(creds[i].payload)) =>
            Signature(creds[i]) = PyStr(HmacHex(WithPayload(creds[i])))

C2_Witness ==
    /\ op = "_get_request_credentials"
    /\ secret = <<"s","3","c","r","e","t">>
    /\ creds # <<>>
    /\ creds[1].path = <<"/","o","r","d","e","r","s">>
    /\ creds[1].expiry = 10
    /\ creds[1].params = None
    /\ creds[1].payload = SmallPayload
    /\ Signature(creds[1]) =
           PyStr(hexdigest(encode(<<"s","3","c","r","e","t">>) \o <<0>>
                     \o encode(<<"/","o","r","d","e","r","s","1","0","{","'","c","l","O","r","d","I","D","'",":"," ","'","i","d","-","1","'",","," ","'","o","r","d","e","r","Q","t","y","'",":"," ","1","}">>)))

\* C3: with both query parameters and a payload the signature is the one of
\* the query-parameter branch, and it is the same for every other payload.
C3_ParamsWin ==
    \A i \in 1..Len(creds) :
        (NonEmptyDict(creds[i].params) /\ NonEmptyDict(creds[i].payload)) =>
            /\ Signature(creds[i]) = PyStr(HmacHex(WithQuery(creds[i])))
            /\ \A other \in SignPayloads :
                   _get_request_credentials(creds[i].path, creds[i].expiry,
                                            creds[i].params, other) = creds[i].header

C3_Witness ==
    /\ op = "_get_request_credentials"
    /\ creds # <<>>
    /\ creds[1].params = UsdParams
    /\ creds[1].payload = SmallPayload

\* C4: a header set made by _signed_request has exactly the three keys, the
\* api key as access token and the clock reading plus 1 as expiry, and that
\* expiry is the one in the signed string; the request carries this header set.
C4_SignedHeaders ==
    signed # <<>> =>
        /\ Len(creds) = 1
        /\ Len(creds[1].header.v) = 3
        /\ HeaderKeys(creds[1].header) = ThreeKeys
        /\ HeaderField(creds[1], <<"x","-","p","h","e","m","e","x","-","a","c","c","e","s","s","-","t","o","k","e","n">>) = PyStr(key)
        /\ HeaderField(creds[1], <<"x","-","p","h","e","m","e","x","-","r","e","q","u","e","s","t","-","e","x","p","i","r","y">>) = PyInt(signed[1].timestamp + 1)
        /\ creds[1].expiry = signed[1].timestamp + 1
        /\ creds[1].path = signed[1].path
        /\ creds[1].params = signed[1].params
        /\ creds[1].payload = signed[1].data
        /\ NonEmptyDict(creds[1].params) =>
               Signature(creds[1]) = PyStr(HmacHex(WithQuery(creds[1])))
        /\ (Absent(creds[1].params) /\ NonEmptyDict(creds[1].payload)) =>
               Signature(creds[1]) = PyStr(HmacHex(WithPayload(creds[1])))
        /\ \A i \in 1..Len(requests) : requests[i].headers = creds[1].header

C4_Witness ==
    /\ op = "get_open_orders"
    /\ Len(requests) = 1
    /\ creds # <<>>
    /\ requests[1].headers = creds[1].header
    /\ signed[1].timestamp = 9
    /\ HeaderField(creds[1], <<"x","-","p","h","e","m","e","x","-","r","e","q","u","e","s","t","-","e","x","p","i","r","y">>) = PyInt(10)

OrderMethods == {"market_order", "limit_order"}

\* C5: every call of market_order or limit_order hands exactly one request
\* to the transport, a POST to /orders with the payload as body, and returns
\* the response of the transport without raising.
C5_OrderIsOneRequest ==
    op \in OrderMethods =>
        /\ Len(requests) = 1
        /\ requests[1].method = <<"P","O","S","T">>
        /\ requests[1].path = <<"/","o","r","d","e","r","s">>
        /\ requests[1].body = signed[1].data
        /\ ~outcome.raised
        /\ outcome.value = received[1]

EndpointMethods ==
    {"get_positions", "cancel_orders", "get_data", "get_orderbook", "get_balance",
     "market_order", "limit_order", "get_closed_orders", "get_open_orders"}

\* C6: each of the nine methods builds its request with the method and the
\* path registered under its own name, and the table stays as constructed.
C6_OwnDescriptor ==
    /\ _path_config = PathConfig
    /\ DOMAIN _path_config = EndpointMethods
    /\ op \in EndpointMethods =>
           /\ Len(signed) = 1
           /\ signed[1].method = PathConfig[op].method
           /\ signed[1].path = PathConfig[op].path
           /\ \A i \in 1..Len(requests) :
                  /\ requests[i].method = PathConfig[op].method
                  /\ requests[i].path = PathConfig[op].path

C6_Witness ==
    /\ op = "get_balance"
    /\ Len(requests) = 1
    /\ requests[1].path = <<"a","c","c","o","u","n","t","s","/","a","c","c","o","u","n","t","P","o","s","i","t","i","o","n","s">>
    /\ requests[1].method = <<"G","E","T">>

\* C7: when the tabular conversion of get_data or get_orderbook fails, the
\* failure is logged, the call does not raise and it returns the response
\* as received.
C7_ConversionFallback ==
    conversion = "failed" =>
        /\ op \in {"get_data", "get_orderbook"}
        /\ is_dataframe
        /\ Len(received) = 1
        /\ Len(log) = 1
        /\ ~outcome.raised
        /\ outcome.value = received[1]

C7_Witness ==
    /\ op = "get_data"
    /\ is_dataframe
    /\ conversion = "failed"
    /\ received = <<KlineShort>>
    /\ log = <<PyExc("ValueError")>>
    /\ outcome = Ret(KlineShort)

\* C8: with neither query parameters nor a payload the signature header is
\* the empty string, and the access token and expiry headers are produced.
C8_EmptySignature ==
    \A i \in 1..Len(creds) :
        (Absent(creds[i].params) /\ Absent(creds[i].payload)) =>
            /\ Signature(creds[i]) = PyStr(<<>>)
            /\ HeaderKeys(creds[i].header) = ThreeKeys
            /\ HeaderField(creds[i], <<"x","-","p","h","e","m","e","x","-","a","c","c","e","s","s","-","t","o","k","e","n">>) = PyStr(key)
            /\ HeaderField(creds[i], <<"x","-","p","h","e","m","e","x","-","r","e","q","u","e","s","t","-","e","x","p","i","r","y">>) = PyInt(creds[i].expiry)

C8_Witness ==
    /\ op = "_get_request_credentials"
    /\ creds # <<>>
    /\ creds[1].params = PyDict(<<>>)
    /\ creds[1].payload = None
    /\ Signature(creds[1]) = PyStr(<<>>)

SameArguments(a, b) ==
    /\ a.path = b.path
    /\ a.expiry = b.expiry
    /\ a.params = b.params
    /\ a.payload = b.payload

\* C9: an invocation of _get_request_credentials returns the header set that
\* an earlier invocation with the same arguments returned, whatever was
\* called in between.
C9_Deterministic ==
    \A i \in 1..Len(mark), j \in 1..Len(creds) :
        SameArguments(mark[i], creds[j]) => mark[i].header = creds[j].header

C9_Witness ==
    /\ op = "get_positions"
    /\ mark # <<>>
    /\ creds # <<>>
    /\ SameArguments(mark[1], creds[1])
    /\ NonEmptyDict(creds[1].params)

\* C10: get_data with is_dataframe=True, answered with the documented
\* envelope, returns the table of the rows of the envelope under the nine
\* documented columns.
C10_EnvelopeIsTabulated ==
    (op = "get_data" /\ is_dataframe /\ received = <<KlineEnvelope>>) =>
        outcome = Ret([t |-> "DataFrame",
                       v |-> [columns |-> KlineColumns, rows |-> <<KlineRow, KlineRow>>]])

====
